---- MODULE Spec2Model ----
(***************************************************************************)
(* write_instructions.py: a script that holds a text payload (content),    *)
(* opens one destination file for writing in text mode with UTF-8,         *)
(* writes the payload with one f.write call inside a `with` block, and     *)
(* prints 'done' and len(content).                                         *)
(*                                                                         *)
(* Characters are code points, file contents are sequences of bytes.  The  *)
(* environment (file system, platform, room on the disk) and the payload   *)
(* are chosen in Init and the script's statements are the actions.         *)
(***************************************************************************)
EXTENDS Integers, Sequences, FiniteSets, TLC

\* ------------------------------------------------------------ bounds
\* Longest payload, in characters.
MaxLen == 2
\* Largest finite amount of room (bytes) the disk has for the destination.
MaxCap == 3
\* Bytes the io layer keeps in memory before it writes through (scaled down
\* from io.DEFAULT_BUFFER_SIZE).
BufferSize == 2
\* Number of invocations of the script in succession (SpecTwice).
MaxRuns == 2

\* ------------------------------------------------------------ characters
\* '\n', '\r', 'a', e-acute (2 bytes), hot-beverage sign (3 bytes),
\* a lone surrogate (not encodable in UTF-8).
LF == 10
CR == 13
Alphabet == {LF, CR, 97, 233, 9749, 55296}

RECURSIVE SeqsUpTo(_)
SeqsUpTo(n) ==
    IF n = 0 THEN {<<>>}
    ELSE LET shorter == SeqsUpTo(n - 1)
         IN  shorter \cup {Append(s, c) : s \in {t \in shorter : Len(t) = n - 1},
                                          c \in Alphabet}

Payloads == SeqsUpTo(MaxLen)

RECURSIVE Flatten(_)
Flatten(ss) == IF ss = <<>> THEN <<>> ELSE Head(ss) \o Flatten(Tail(ss))

Take(s, n) == IF n >= Len(s) THEN s ELSE IF n <= 0 THEN <<>> ELSE SubSeq(s, 1, n)
Drop(s, n) == IF n >= Len(s) THEN <<>> ELSE IF n <= 0 THEN s ELSE SubSeq(s, n + 1, Len(s))

\* ------------------------------------------------------------ text layer
\* The codec 'utf-8' with errors='strict'.
IsSurrogate(c) == c >= 55296 /\ c <= 57343

Encodable(text) == \A i \in 1..Len(text) : ~IsSurrogate(text[i])

Utf8Char(c) ==
    IF c < 128 THEN <<c>>
    ELSE IF c < 2048 THEN <<192 + (c \div 64), 128 + (c % 64)>>
    ELSE IF c < 65536
         THEN <<224 + (c \div 4096), 128 + ((c \div 64) % 64), 128 + (c % 64)>>
         ELSE <<240 + (c \div 262144), 128 + ((c \div 4096) % 64),
                128 + ((c \div 64) % 64), 128 + (c % 64)>>

Utf8Encode(text) == Flatten([i \in 1..Len(text) |-> Utf8Char(text[i])])

\* os.linesep of the platform the script runs on.
LineSep(plat) == IF plat = "nt" THEN <<CR, LF>> ELSE <<LF>>

\* open(..., 'w') leaves newline=None: on output each '\n' becomes os.linesep.
TranslateNewlines(text, plat) ==
    Flatten([i \in 1..Len(text) |-> IF text[i] = LF THEN LineSep(plat) ELSE <<text[i]>>])

\* The bytes f.write(text) hands to the buffer.
WriteBytes(text, plat) == Utf8Encode(TranslateNewlines(text, plat))

\* ------------------------------------------------------------ file system
\* The destination (the path of the open call), its parent directory, and one
\* other file that stands for the rest of the file system.
Dest == "dest"
ParentDir == "parent"
Other == "other"

\* Mutant: the script opens another path than the destination.
WrongPath == Other

\* The path the script opens.
TargetPath == Dest

\* Contents a file at the destination may hold before the run.
Priors == {<<>>, <<97>>, <<97, 10>>, <<79, 76, 68, 33>>}

\* Room that never runs out.
NoLimit == 4 * (MaxLen + 1) * 2 + MaxCap + 1
Capacities == (0..MaxCap) \cup {NoLimit}

PutFile(fs, path, bytes) ==
    [p \in (DOMAIN fs) \cup {path} |-> IF p = path THEN bytes ELSE fs[p]]

VARIABLES
    content,     \* the payload (module-level name `content`)
    platform,    \* "posix" or "nt"
    dirs,        \* the directories that exist
    files,       \* the files that exist: path -> bytes
    writable,    \* whether the destination may be created / opened for writing
    capacity,    \* bytes the disk can hold for the destination file
    pc,          \* the statement the script is at
    f,           \* the file object of the with block: "none", "open", "closed"
    pending,     \* bytes written to f and not yet on disk
    exc,         \* the exception in flight inside the with block ("none")
    err,         \* the exception that ended the run ("none")
    stdout,      \* what print has written
    status,      \* the exit status of the process (-1 while running)
    acquired,    \* number of times a handle was opened in this run
    released,    \* number of times a handle was closed in this run
    trace,       \* the statements executed in this run, in order
    before,      \* the file system as the run found it
    runs,        \* the number of the current invocation
    first        \* the file system and outcome the first invocation left

vars == <<content, platform, dirs, files, writable, capacity, pc, f, pending,
          exc, err, stdout, status, acquired, released, trace, before, runs, first>>

env == <<content, platform, writable, capacity>>

Terminal == {"done", "failed"}

\* Python's exception classes, as the two kinds of the error taxonomy.
OSErrors == {"FileNotFoundError", "IsADirectoryError", "PermissionError", "OSError"}
ErrorKind(e) ==
    IF e \in OSErrors THEN "FileSystemError"
    ELSE IF e = "UnicodeEncodeError" THEN "EncodingError"
    ELSE "none"

FileSystems ==
    {[d |-> {}, fl |-> (Other :> <<111>>)],
     [d |-> {ParentDir}, fl |-> (Other :> <<111>>)],
     [d |-> {ParentDir, Dest}, fl |-> (Other :> <<111>>)]}
    \cup {[d |-> {ParentDir}, fl |-> (Other :> <<111>>) @@ (Dest :> q)] : q \in Priors}

Init ==
    /\ content \in Payloads
    /\ platform \in {"posix", "nt"}
    /\ \E fs \in FileSystems : dirs = fs.d /\ files = fs.fl
    /\ writable \in BOOLEAN
    /\ capacity \in Capacities
    /\ (Dest \in DOMAIN files => Len(files[Dest]) <= capacity)
    /\ pc = "start"
    /\ f = "none"
    /\ pending = <<>>
    /\ exc = "none"
    /\ err = "none"
    /\ stdout = <<>>
    /\ status = -1
    /\ acquired = 0
    /\ released = 0
    /\ trace = <<>>
    /\ before = [dirs |-> dirs, files |-> files]
    /\ runs = 1
    /\ first = [set |-> FALSE]

\* ------------------------------------------------------------ the statements
\* Mutant: the open does not fail on a missing parent directory.
OpenErrorNoParentCheck(ds, w, plat) ==
    IF TargetPath \in ds
    THEN (IF plat = "nt" THEN "PermissionError" ELSE "IsADirectoryError")
    ELSE IF ~w THEN "PermissionError"
    ELSE "none"

\* What open(path, 'w', encoding='utf-8') raises, "none" when it opens.
OpenError(ds, w, plat) ==
    IF ParentDir \notin ds THEN "FileNotFoundError"
    ELSE IF TargetPath \in ds
         THEN (IF plat = "nt" THEN "PermissionError" ELSE "IsADirectoryError")
    ELSE IF ~w THEN "PermissionError"
    ELSE "none"

\* Mutant: mode 'a', the opened file keeps what it held.
OpenedFileAppend(fs, path) == IF path \in DOMAIN fs THEN fs[path] ELSE <<>>

\* The content of the opened file: mode 'w' creates it empty or truncates it.
OpenedFile(fs, path) == <<>>

\* Room left on the disk for the file at path.
Room(fs, path) == capacity - Len(fs[path])

\* Mutant: the bytes never reach the disk.
DroppedWrite(fs, path, bytes) == fs

\* The raw write of bytes at the end of the file: as much as the disk takes.
RawWrite(fs, path, bytes) == PutFile(fs, path, fs[path] \o Take(bytes, Room(fs, path)))

\* Mutant: no `with`, f.close() follows f.write and is skipped by an exception.
ReleasedOnSuccess(e) == e = "none"

\* `with`: the file object's __exit__ closes the file whatever happened in the block.
ReleasedOnExit(e) == TRUE

\* Mutant: the exception is caught and ignored.
Swallowed(e) == "none"

\* `with`: __exit__ returns nothing, the exception leaves the block.
Propagated(e) == e

\* Mutant: the number of encoded bytes is reported.
ReportedByteCount(text) == Len(Utf8Encode(text))

\* len(content): the number of code points.
ReportedCount(text) == Len(text)

\* line 35: open(r'...', 'w', encoding='utf-8')
Open ==
    /\ pc = "start"
    /\ trace' = Append(trace, "open")
    /\ LET e == OpenError(dirs, writable, platform)
       IN  IF e # "none"
           THEN /\ pc' = "failed"
                /\ err' = e
                /\ status' = 1
                /\ UNCHANGED <<files, f, acquired>>
           ELSE /\ files' = PutFile(files, TargetPath, OpenedFile(files, TargetPath))
                /\ f' = "open"
                /\ acquired' = acquired + 1
                /\ pc' = "opened"
                /\ UNCHANGED <<err, status>>
    /\ UNCHANGED <<env, dirs, pending, exc, stdout, released, before, runs, first>>

\* line 36: f.write(content), one call with the whole payload.  The text is
\* newline-translated and encoded; a short result stays in the buffer, a long
\* one is written through at once.
Write ==
    /\ pc = "opened"
    /\ trace' = Append(trace, "write")
    /\ pc' = "exiting"
    /\ IF ~Encodable(content)
       THEN /\ exc' = "UnicodeEncodeError"
            /\ UNCHANGED <<files, pending>>
       ELSE LET b == WriteBytes(content, platform)
            IN  IF Len(b) >= BufferSize
                THEN /\ files' = RawWrite(files, TargetPath, b)
                     /\ exc' = IF Len(b) > Room(files, TargetPath) THEN "OSError" ELSE "none"
                     /\ pending' = <<>>
                ELSE /\ pending' = b
                     /\ exc' = "none"
                     /\ UNCHANGED files
    /\ UNCHANGED <<env, dirs, f, err, stdout, status, acquired, released, before,
                   runs, first>>

\* lines 35-36: leaving the with block: f.close() flushes the buffer and closes
\* the handle; an exception of the block, or of the flush, ends the run.
Close ==
    /\ pc = "exiting"
    /\ trace' = Append(trace, "close")
    /\ files' = RawWrite(files, TargetPath, pending)
    /\ pending' = <<>>
    /\ IF ReleasedOnExit(exc)
       THEN f' = "closed" /\ released' = released + 1
       ELSE UNCHANGED <<f, released>>
    /\ LET final == Propagated(IF Len(pending) > Room(files, TargetPath)
                               THEN "OSError" ELSE exc)
       IN  IF final # "none"
           THEN pc' = "failed" /\ err' = final /\ status' = 1
           ELSE pc' = "closed" /\ UNCHANGED <<err, status>>
    /\ exc' = "none"
    /\ UNCHANGED <<env, dirs, stdout, acquired, before, runs, first>>

\* Mutant: the confirmation is printed inside the with block, before the handle
\* is closed, and the block is never left.
PrintInsideWith ==
    /\ pc = "exiting"
    /\ exc = "none"
    /\ trace' = Append(trace, "print")
    /\ stdout' = Append(stdout, <<"done", Len(content)>>)
    /\ status' = 0
    /\ pc' = "done"
    /\ UNCHANGED <<env, dirs, files, f, pending, exc, err, acquired, released,
                   before, runs, first>>

\* line 37: print('done', len(content)); the script ends.
PrintDone ==
    /\ pc = "closed"
    /\ trace' = Append(trace, "print")
    /\ stdout' = Append(stdout, <<"done", ReportedCount(content)>>)
    /\ status' = 0
    /\ pc' = "done"
    /\ UNCHANGED <<env, dirs, files, f, pending, exc, err, acquired, released,
                   before, runs, first>>

\* The script is run again on the file system the last run left.
Rerun ==
    /\ pc \in Terminal
    /\ runs < MaxRuns
    /\ runs' = runs + 1
    /\ first' = IF first.set THEN first
                ELSE [set |-> TRUE, dirs |-> dirs, files |-> files, pc |-> pc,
                      err |-> err, stdout |-> stdout]
    /\ before' = [dirs |-> dirs, files |-> files]
    /\ pc' = "start"
    /\ f' = "none"
    /\ pending' = <<>>
    /\ exc' = "none"
    /\ err' = "none"
    /\ stdout' = <<>>
    /\ status' = -1
    /\ acquired' = 0
    /\ released' = 0
    /\ trace' = <<>>
    /\ UNCHANGED <<env, dirs, files>>

Next == Open \/ Write \/ Close \/ PrintDone

NextTwice == Next \/ Rerun

\* One run of the script.
Spec == Init /\ [][Next]_vars

\* One run; the interpreter executes the next statement whenever there is one.
LiveSpec == Init /\ [][Next]_vars /\ WF_vars(Next)

\* The script run MaxRuns times in succession.
SpecTwice == Init /\ [][NextTwice]_vars

\* ------------------------------------------------------------ reading back
\* Decoding UTF-8; <<-1>> stands for a decoding error.
RECURSIVE Utf8Decode(_)
Utf8Decode(b) ==
    IF b = <<>> THEN <<>>
    ELSE LET h == Head(b)
             n == IF h < 128 THEN 1 ELSE IF h < 192 THEN 0 ELSE IF h < 224 THEN 2
                  ELSE IF h < 240 THEN 3 ELSE IF h < 248 THEN 4 ELSE 0
         IN  IF n = 0 \/ Len(b) < n THEN <<-1>>
             ELSE LET c == IF n = 1 THEN h
                           ELSE IF n = 2 THEN (h - 192) * 64 + (b[2] - 128)
                           ELSE IF n = 3 THEN (h - 224) * 4096 + (b[2] - 128) * 64
                                             + (b[3] - 128)
                           ELSE (h - 240) * 262144 + (b[2] - 128) * 4096
                                + (b[3] - 128) * 64 + (b[4] - 128)
                  IN  <<c>> \o Utf8Decode(Drop(b, n))

\* Text-mode input with newline=None: '\r\n' and '\r' are read as '\n'.
RECURSIVE UniversalNewlines(_)
UniversalNewlines(t) ==
    IF t = <<>> THEN <<>>
    ELSE IF Head(t) = CR
         THEN IF Len(t) >= 2 /\ t[2] = LF
              THEN <<LF>> \o UniversalNewlines(Drop(t, 2))
              ELSE <<LF>> \o UniversalNewlines(Tail(t))
         ELSE <<Head(t)>> \o UniversalNewlines(Tail(t))

\* Reading a file back with the same encoding: in text mode, or with no newline
\* handling at all.
ReadText(b) == UniversalNewlines(Utf8Decode(b))
ReadVerbatim(b) == Utf8Decode(b)

\* The destination holds all the bytes the write of the payload produces, and
\* nothing else.
FullyWritten ==
    /\ Dest \in DOMAIN files
    /\ files[Dest] = WriteBytes(content, platform)

\* The run found a file at the destination.
HadPrior == Dest \in DOMAIN before.files

IsPrefix(s, t) == Len(s) <= Len(t) /\ s = Take(t, Len(s))

Statements == <<"open", "write", "close", "print">>

\* ------------------------------------------------------------ claims

\* C1 (content fidelity, P1): after a run that succeeded, reading the
\* destination back with the same encoding -- in text mode or with no newline
\* handling -- yields exactly the payload.
ContentFidelity ==
    pc = "done" =>
        /\ Dest \in DOMAIN files
        /\ content \in {ReadText(files[Dest]), ReadVerbatim(files[Dest])}

\* C2 (overwrite, not append, P2): when the destination held prior content q,
\* different from the payload, then after a run that succeeded the content of
\* the destination read back is exactly the payload, with nothing of q left.
OverwriteExactly ==
    (pc = "done" /\ HadPrior /\ before.files[Dest] # Utf8Encode(content)) =>
        /\ Dest \in DOMAIN files
        /\ content \in {ReadText(files[Dest]), ReadVerbatim(files[Dest])}

\* C3 (idempotence, P3): a second run of the script in succession ends as the
\* first did and leaves the same files with the same contents, and the same
\* directories, as the first left.
Idempotent ==
    (first.set /\ pc \in Terminal) =>
        /\ files = first.files
        /\ dirs = first.dirs
        /\ pc = first.pc
        /\ err = first.err
        /\ stdout = first.stdout

\* C3 witness: a second run has completed on a file the first run wrote.
IdempotentWitness ==
    /\ runs = 2
    /\ pc = "done"
    /\ content # <<>>
    /\ first.set
    /\ first.pc = "done"

\* C4 (failure on missing parent, P4): when the parent directory of the
\* destination does not exist, the run fails with a FileSystemError as soon as it
\* has executed the open; no file is created at the destination, no directory is
\* created, and the file system is as the run found it.
MissingParentFails ==
    (ParentDir \notin before.dirs /\ pc # "start") =>
        /\ pc = "failed"
        /\ ErrorKind(err) = "FileSystemError"
        /\ Dest \notin DOMAIN files
        /\ dirs = before.dirs
        /\ files = before.files
        /\ f = "none"
        /\ stdout = <<>>

\* C4 witness: a run without the parent directory has failed.
MissingParentWitness ==
    /\ pc = "failed"
    /\ ParentDir \notin dirs
    /\ err = "FileNotFoundError"

\* C5 as stated (all-or-nothing): a terminal state is either a completed run
\* with the full payload at the destination, or a failed run with an error
\* surfaced and the destination neither created, truncated nor partly written.
AllOrNothing ==
    pc \in Terminal =>
        \/ pc = "done" /\ err = "none" /\ FullyWritten
        \/ pc = "failed" /\ err # "none" /\ files = before.files

\* C5 as amended: a terminal state is either a completed run (status 0, the
\* confirmation printed) with the full payload at the destination, or a failed
\* run with an error surfaced and no confirmation; success is never seen with
\* anything but the full payload.  A failure of the open leaves the file system
\* as it was; a failure after the open is not rolled back: the destination is
\* left created or truncated, holding nothing (encoding failure) or the leading
\* bytes of the payload that the disk took (I/O failure).
OutcomeIsSuccessOrError ==
    /\ pc \in Terminal =>
        \/ /\ pc = "done"
           /\ err = "none"
           /\ status = 0
           /\ stdout # <<>>
           /\ FullyWritten
        \/ /\ pc = "failed"
           /\ err # "none"
           /\ status = 1
           /\ stdout = <<>>
    /\ (stdout # <<>> \/ status = 0) => FullyWritten
    /\ (pc = "failed" /\ acquired = 0) => files = before.files
    /\ (pc = "failed" /\ acquired = 1) =>
        /\ Dest \in DOMAIN files
        /\ files[Dest] = IF Encodable(content)
                         THEN Take(WriteBytes(content, platform), capacity)
                         ELSE <<>>
        /\ files[Dest] # WriteBytes(content, platform) \/ ~Encodable(content)

\* C5 witness: a run failed after the open and left a file it had truncated.
TruncatedOnFailureWitness ==
    /\ pc = "failed"
    /\ acquired = 1
    /\ HadPrior
    /\ before.files[Dest] # <<>>
    /\ files[Dest] # before.files[Dest]

\* C6 (no handle leak): in a terminal state the file handle is not open; a handle
\* is acquired at most once in a run, and an acquired handle has been released
\* exactly once when the run ends, never more often than it was acquired.
NoHandleLeak ==
    /\ pc \in Terminal => (f # "open" /\ released = acquired)
    /\ acquired <= 1
    /\ released <= acquired
    /\ (f = "open") = (acquired = released + 1)
    /\ (f = "closed") = (acquired = 1 /\ released = 1)

\* C6 witness: a run failed after it had acquired the handle, and released it.
ReleasedOnFailureWitness ==
    /\ pc = "failed"
    /\ acquired = 1
    /\ released = 1
    /\ f = "closed"

\* C7 (length reporting, P5): whatever a run prints is one confirmation, 'done'
\* with the number of characters of the payload (0 for the empty payload, and
\* not the number of bytes of a payload with multi-byte characters); a completed
\* run has printed it, after writing that same payload; and no step changes the
\* payload.
LengthReported ==
    /\ [](/\ \A i \in 1..Len(stdout) : stdout[i] = <<"done", Len(content)>>
          /\ Len(stdout) <= 1
          /\ pc = "done" => (stdout = <<<<"done", Len(content)>>>> /\ FullyWritten))
    /\ [][content' = content]_vars

\* C7 witness: a run has reported the length of a payload with a multi-byte
\* character, whose number of bytes differs.
MultiByteReportedWitness ==
    /\ pc = "done"
    /\ stdout = <<<<"done", Len(content)>>>>
    /\ Len(Utf8Encode(content)) > Len(content)
    /\ \E i \in 1..Len(content) : content[i] > 127

\* C8 (frame): at every point of a run, on every path, the directories are those
\* the run found, every file other than the destination exists with the content
\* it had, and no file but the destination has appeared; a completed run has the
\* one file at the destination.
FrameOnlyDestination ==
    /\ dirs = before.dirs
    /\ DOMAIN before.files \subseteq DOMAIN files
    /\ DOMAIN files \subseteq (DOMAIN before.files) \cup {Dest}
    /\ \A p \in (DOMAIN before.files) \ {Dest} : files[p] = before.files[p]
    /\ pc = "done" => Dest \in DOMAIN files
    /\ (pc # "done" /\ acquired = 0) => files = before.files

\* C8 witness: a completed run created the destination, which did not exist.
CreatedDestinationWitness ==
    /\ pc = "done"
    /\ ~HadPrior
    /\ Dest \in DOMAIN files
    /\ files[Dest] # <<>>
    /\ files[Other] = before.files[Other]

\* The reason a run cannot succeed, given what it found: the kind of error it
\* must end with ("none" when nothing stands in its way).
ExpectedFailure ==
    IF OpenError(before.dirs, writable, platform) # "none" THEN "FileSystemError"
    ELSE IF ~Encodable(content) THEN "EncodingError"
    ELSE IF Len(WriteBytes(content, platform)) > capacity THEN "FileSystemError"
    ELSE "none"

\* C9 (no silent failure): a run that cannot open or write the destination ends
\* failed with a FileSystemError, a run whose payload cannot be encoded ends
\* failed with an EncodingError; a failed run has a failure status, has printed
\* no confirmation, has executed no statement twice and takes no further step;
\* a run completes only when nothing failed.
NoSilentFailure ==
    /\ pc = "failed" =>
        /\ err # "none"
        /\ ErrorKind(err) = ExpectedFailure
        /\ status = 1
        /\ stdout = <<>>
        /\ IsPrefix(trace, Statements)
        /\ Len(trace) <= 3
        /\ ~ENABLED Next
    /\ pc = "done" => (ExpectedFailure = "none" /\ err = "none")
    /\ err # "none" => pc = "failed"
    /\ (pc = "closed" \/ stdout # <<>>) => ExpectedFailure = "none"
    /\ (pc = "exiting" /\ exc # "none") => ErrorKind(exc) = ExpectedFailure

\* C9 witness: a run has ended with an EncodingError.
EncodingErrorWitness ==
    /\ pc = "failed"
    /\ err = "UnicodeEncodeError"
    /\ ~Encodable(content)
    /\ stdout = <<>>

\* C10 (single-shot ordering): a run starts not yet executed, its statements are
\* executed at most once each and in the order open, write, close, print; the
\* confirmation is printed only after the whole payload was written by the one
\* write and the handle was closed; no step is taken from a terminal state; and
\* every run reaches a terminal state.
SingleShot ==
    /\ pc = "start" /\ trace = <<>>
    /\ [](/\ IsPrefix(trace, Statements)
          /\ pc \in {"start", "opened", "exiting", "closed", "done", "failed"}
          /\ pc = "start" => trace = <<>>
          /\ pc = "opened" => trace = Take(Statements, 1)
          /\ pc = "exiting" => trace = Take(Statements, 2)
          /\ pc = "closed" => trace = Take(Statements, 3)
          /\ pc = "done" => trace = Statements
          /\ stdout # <<>> => (pc = "done" /\ f = "closed" /\ pending = <<>>
                               /\ FullyWritten))
    /\ [][pc \notin Terminal /\ Len(trace') = Len(trace) + 1]_vars
    /\ <>(pc \in Terminal)

\* C10 witness: a run has executed all four statements and completed.
CompletedInOrderWitness ==
    /\ pc = "done"
    /\ trace = Statements
    /\ f = "closed"
    /\ FullyWritten
    /\ content # <<>>

====
